---- MODULE Spec2Model ----
(***************************************************************************)
(* Model of questions.py: the IDF calculator (compute_idfs), the document  *)
(* ranker (top_files), the sentence ranker (top_sentences), the tokenizer  *)
(* (tokenize) and the orchestrator (main).                                 *)
(*                                                                         *)
(* A Python dict is a sequence of records [k |-> key, v |-> value] with    *)
(* pairwise distinct keys, in insertion order (the order dict iteration    *)
(* yields).  A float produced by math.log is kept exactly: the pair        *)
(* <<p, q>> of positive integers stands for ln(p / q), sums of such values *)
(* are products of the pairs, and comparisons are cross-multiplications.   *)
(* Floating-point rounding is not modelled.                                *)
(***************************************************************************)
EXTENDS Integers, Sequences, FiniteSets, TLC

VARIABLES pc, documents, query, idfs, n, result,
          files, input, file_words, file_idfs, filenames, sentences, matches

vars == <<pc, documents, query, idfs, n, result,
          files, input, file_words, file_idfs, filenames, sentences, matches>>

callVars == <<documents, query, idfs, n>>
mainVars == <<files, input, file_words, file_idfs, filenames, sentences, matches>>

(***************************************************************************)
(* Bounds of the explored inputs.                                          *)
(***************************************************************************)
MaxDocs == 2
MaxTokens == 3

Tokens == {"cat", "dog"}
DocIds == 1..MaxDocs

(***************************************************************************)
(* Generic helpers.                                                        *)
(***************************************************************************)
Range(s) == {s[i] : i \in DOMAIN s}

Min(a, b) == IF a < b THEN a ELSE b

RECURSIVE Pow(_, _)
Pow(b, e) == IF e = 0 THEN 1 ELSE b * Pow(b, e - 1)

RECURSIVE SumLen(_)
SumLen(d) == IF d = <<>> THEN 0 ELSE Len(Head(d).v) + SumLen(Tail(d))

\* list.count(word)
Count(s, w) == Cardinality({i \in DOMAIN s : s[i] = w})

\* faulty variant: one element too many
PrefixOffByOne(s, k) == SubSeq(s, 1, Min(k + 1, Len(s)))

\* seq[:k]
Prefix(s, k) == SubSeq(s, 1, Min(k, Len(s)))

Keys(d) == [i \in DOMAIN d |-> d[i].k]

Lookup(d, key) == (CHOOSE i \in DOMAIN d : d[i].k = key)

(***************************************************************************)
(* Exact logarithms: <<p, q>> is ln(p / q), p > 0, q > 0.                   *)
(***************************************************************************)
LogZero == <<1, 1>>
LogAdd(a, b) == <<a[1] * b[1], a[2] * b[2]>>
LogScale(c, a) == <<Pow(a[1], c), Pow(a[2], c)>>
LogLess(a, b) == a[1] * b[2] < b[1] * a[2]
LogEq(a, b) == a[1] * b[2] = b[1] * a[2]

\* a ratio m / l with l > 0, as the pair <<m, l>>
RatLess(a, b) == a[1] * b[2] < b[1] * a[2]

(***************************************************************************)
(* Outcomes of a call: a returned value or a raised exception.             *)
(***************************************************************************)
Returned(x) == [kind |-> "return", val |-> x]
Raised(e) == [kind |-> "raise", val |-> e]
NoResult == [kind |-> "none", val |-> <<>>]

(***************************************************************************)
(* compute_idfs                                                            *)
(***************************************************************************)
\* word_list: the union of the documents' words
word_list(docs) == UNION {Range(docs[i].v) : i \in DOMAIN docs}

\* faulty variant: counts occurrences instead of documents
docs_with_word_freq(docs, word) ==
  LET RECURSIVE Tot(_)
      Tot(i) == IF i = 0 THEN 0 ELSE Count(docs[i].v, word) + Tot(i - 1)
  IN Tot(Len(docs))

\* len([document for document in documents if word in documents[document]])
docs_with_word(docs, word) ==
  Cardinality({i \in DOMAIN docs : word \in Range(docs[i].v)})

\* faulty variant: divides by the document count before looking at the words
compute_idfs_no_guard(docs) ==
  IF Len(docs) = 0
  THEN Raised("ZeroDivisionError")
  ELSE Returned([w \in word_list(docs) |-> <<Len(docs), docs_with_word(docs, w)>>])

\* faulty variant: the ratio is inverted, ln(d / N)
compute_idfs_inverted(docs) ==
  Returned([w \in word_list(docs) |-> <<docs_with_word(docs, w), Len(docs)>>])

compute_idfs(docs) ==
  LET total_documents == Len(docs)
      words == word_list(docs)
  IN IF \E w \in words : docs_with_word(docs, w) = 0
     THEN Raised("ZeroDivisionError")
     ELSE IF \E w \in words : total_documents = 0
     THEN Raised("ValueError")
     ELSE Returned([w \in words |-> <<total_documents, docs_with_word(docs, w)>>])

\* the first raised outcome of a sequence of outcomes, in iteration order
FirstRaised(outs) ==
  outs[CHOOSE i \in DOMAIN outs :
         /\ outs[i].kind = "raise"
         /\ \A j \in 1..(i - 1) : outs[j].kind # "raise"]

(***************************************************************************)
(* top_files                                                               *)
(***************************************************************************)
RECURSIVE TfIdfTerms(_, _, _)
TfIdfTerms(q, words, table) ==
  IF q = {} THEN LogZero
  ELSE LET word == CHOOSE w \in q : TRUE
       IN LogAdd(LogScale(Count(words, word), table[word]),
                 TfIdfTerms(q \ {word}, words, table))

\* sum([files[file].count(word) * idfs[word] for word in query])
tf_idf_sum(q, words, table) ==
  IF \E word \in q : word \notin DOMAIN table
  THEN Raised("KeyError")
  ELSE Returned(TfIdfTerms(q, words, table))

\* faulty variant: an item with an equal score moves ahead of the earlier one
ScoreGreaterOrEqual(a, b) == ~LogLess(a.score, b.score)

ScoreGreater(a, b) == LogLess(b.score, a.score)

\* sorted(file_idfs.items(), key=lambda item: item[1], reverse=True): a
\* stable sort, descending; items with equal keys keep their original order.
\* Each item goes behind every item already placed that is not smaller.
RECURSIVE InsertByScore(_, _)
InsertByScore(x, s) ==
  IF s = <<>> THEN <<x>>
  ELSE IF ScoreGreater(x, Head(s)) THEN <<x>> \o s
  ELSE <<Head(s)>> \o InsertByScore(x, Tail(s))

RECURSIVE SortedByScore(_)
SortedByScore(s) ==
  IF s = <<>> THEN <<>>
  ELSE InsertByScore(s[Len(s)], SortedByScore(SubSeq(s, 1, Len(s) - 1)))

file_scores(q, fs, table) == [i \in DOMAIN fs |-> tf_idf_sum(q, fs[i].v, table)]

top_files(q, fs, table, k) ==
  LET outs == file_scores(q, fs, table)
      file_idfs_items == [i \in DOMAIN fs |-> [k |-> fs[i].k, score |-> outs[i].val]]
      ranked == SortedByScore(file_idfs_items)
  IN IF \E i \in DOMAIN outs : outs[i].kind = "raise"
     THEN FirstRaised(outs)
     ELSE Returned(Keys(Prefix(ranked, k)))

(***************************************************************************)
(* top_sentences                                                           *)
(***************************************************************************)
RECURSIVE IdfTerms(_, _)
IdfTerms(q, table) ==
  IF q = {} THEN LogZero
  ELSE LET word == CHOOSE w \in q : TRUE
       IN LogAdd(table[word], IdfTerms(q \ {word}, table))

\* sum([idfs[word] for word in query if word in sentences[sentence]])
idf_sum(q, words, table) ==
  LET present == {word \in q : word \in Range(words)}
  IN IF \E word \in present : word \notin DOMAIN table
     THEN Raised("KeyError")
     ELSE Returned(IdfTerms(present, table))

\* len([word for word in sentences[sentence] if word in query]) / len(sentences[sentence])
query_term_density(q, words) ==
  IF Len(words) = 0
  THEN Raised("ZeroDivisionError")
  ELSE Returned(<<Cardinality({i \in DOMAIN words : words[i] \in q}), Len(words)>>)

\* one iteration of the loop: the tuple (idf_sum, query_term_density)
sentence_score(q, words, table) ==
  LET s == idf_sum(q, words, table)
      d == query_term_density(q, words)
  IN IF s.kind = "raise" THEN s
     ELSE IF d.kind = "raise" THEN d
     ELSE Returned(<<s.val, d.val>>)

\* Python's tuple comparison a > b on (idf_sum, query_term_density)
PairGreater(x, y) ==
  \/ LogLess(y[1], x[1])
  \/ LogEq(x[1], y[1]) /\ RatLess(y[2], x[2])

\* faulty variant: the key is the idf sum alone
TupleGreaterIdfOnly(a, b) == LogLess(b.score[1], a.score[1])

TupleGreater(a, b) == PairGreater(a.score, b.score)

\* sorted(sentence_idfs.items(), key=lambda item: item[1], reverse=True)
RECURSIVE InsertByTuple(_, _)
InsertByTuple(x, s) ==
  IF s = <<>> THEN <<x>>
  ELSE IF TupleGreater(x, Head(s)) THEN <<x>> \o s
  ELSE <<Head(s)>> \o InsertByTuple(x, Tail(s))

RECURSIVE SortedByTuple(_)
SortedByTuple(s) ==
  IF s = <<>> THEN <<>>
  ELSE InsertByTuple(s[Len(s)], SortedByTuple(SubSeq(s, 1, Len(s) - 1)))

sentence_scores(q, ss, table) ==
  [i \in DOMAIN ss |-> sentence_score(q, ss[i].v, table)]

top_sentences(q, ss, table, k) ==
  LET outs == sentence_scores(q, ss, table)
      sentence_idfs_items == [i \in DOMAIN ss |-> [k |-> ss[i].k, score |-> outs[i].val]]
      ranked == SortedByTuple(sentence_idfs_items)
  IN IF \E i \in DOMAIN outs : outs[i].kind = "raise"
     THEN FirstRaised(outs)
     ELSE Returned(Keys(Prefix(ranked, k)))

(***************************************************************************)
(* The explored arguments of a call.                                       *)
(***************************************************************************)
TokenSeqs == UNION {[1..l -> Tokens] : l \in 0..MaxTokens}

DistinctKeys(d) == \A i, j \in DOMAIN d : i # j => d[i].k # d[j].k

\* every dict of at most MaxDocs entries holding at most MaxTokens words
Mappings ==
  UNION {{d \in [1..c -> [k : DocIds, v : TokenSeqs]] :
            DistinctKeys(d) /\ SumLen(d) <= MaxTokens} : c \in 0..MaxDocs}

\* ln(1), ln(3/2), ln(2)
IdfValues == {<<1, 1>>, <<3, 2>>, <<2, 1>>}

IdfTables == UNION {[K -> IdfValues] : K \in SUBSET Tokens}

NoMain ==
  /\ files = <<>>
  /\ input = <<>>
  /\ file_words = <<>>
  /\ file_idfs = <<>>
  /\ filenames = <<>>
  /\ sentences = <<>>
  /\ matches = NoResult

(***************************************************************************)
(* SpecIdfs: compute_idfs applied to every explored mapping.               *)
(***************************************************************************)
InitIdfs ==
  /\ pc = "call"
  /\ documents \in Mappings
  /\ query = {}
  /\ idfs = <<>>
  /\ n = 0
  /\ result = NoResult
  /\ NoMain

CallComputeIdfs ==
  /\ pc = "call"
  /\ result' = compute_idfs(documents)
  /\ pc' = "compute_idfs"
  /\ UNCHANGED <<callVars, mainVars>>

NextIdfs == CallComputeIdfs

SpecIdfs == InitIdfs /\ [][NextIdfs]_vars

(***************************************************************************)
(* Spec: top_files and top_sentences applied to every explored call.       *)
(***************************************************************************)
Init ==
  /\ pc = "call"
  /\ documents \in Mappings
  /\ query \in SUBSET Tokens
  /\ idfs \in IdfTables
  /\ n \in 0..(MaxDocs + 1)
  /\ result = NoResult
  /\ NoMain

CallTopFiles ==
  /\ pc = "call"
  /\ result' = top_files(query, documents, idfs, n)
  /\ pc' = "top_files"
  /\ UNCHANGED <<callVars, mainVars>>

CallTopSentences ==
  /\ pc = "call"
  /\ result' = top_sentences(query, documents, idfs, n)
  /\ pc' = "top_sentences"
  /\ UNCHANGED <<callVars, mainVars>>

Next == CallTopFiles \/ CallTopSentences

Spec == Init /\ [][Next]_vars

(***************************************************************************)
(* tokenize.  A string is a sequence of one-character strings over the     *)
(* alphabet {a, b, B, ., space, newline}; "a" is the only English stopword *)
(* that can be written with the letters a and b.                           *)
(***************************************************************************)
Punctuation == {"."}
Whitespace == {" ", "\n"}
Stopwords == {<<"a">>}

LowerChar(c) == IF c = "B" THEN "b" ELSE c
lower(word) == [i \in DOMAIN word |-> LowerChar(word[i])]

NotPunctuation(c) == c \notin Punctuation

\* document.translate({ord(punct): None for punct in string.punctuation})
translate(document) == SelectSeq(document, NotPunctuation)

\* str.split(): the maximal runs of non-whitespace characters
RECURSIVE SplitFrom(_, _)
SplitFrom(s, cur) ==
  IF s = <<>> THEN (IF cur = <<>> THEN <<>> ELSE <<cur>>)
  ELSE IF Head(s) \in Whitespace
       THEN (IF cur = <<>> THEN <<>> ELSE <<cur>>) \o SplitFrom(Tail(s), <<>>)
       ELSE SplitFrom(Tail(s), Append(cur, Head(s)))

split(s) == SplitFrom(s, <<>>)

NotStopword(word) == word \notin Stopwords

tokenize(document) ==
  LET ws == split(translate(document))
  IN SelectSeq([i \in DOMAIN ws |-> lower(ws[i])], NotStopword)

(***************************************************************************)
(* main: the passages and sentences of a file.                             *)
(***************************************************************************)
\* str.split("\n"): the pieces between newlines, empty pieces included
RECURSIVE SplitLinesFrom(_, _)
SplitLinesFrom(s, cur) ==
  IF s = <<>> THEN <<cur>>
  ELSE IF Head(s) = "\n" THEN <<cur>> \o SplitLinesFrom(Tail(s), <<>>)
       ELSE SplitLinesFrom(Tail(s), Append(cur, Head(s)))

split_lines(s) == SplitLinesFrom(s, <<>>)

RECURSIVE LStrip(_)
LStrip(s) == IF s # <<>> /\ Head(s) \in Whitespace THEN LStrip(Tail(s)) ELSE s

RECURSIVE RStrip(_)
RStrip(s) ==
  IF s # <<>> /\ s[Len(s)] \in Whitespace THEN RStrip(SubSeq(s, 1, Len(s) - 1)) ELSE s

Strip(s) == RStrip(LStrip(s))

NotEmpty(s) == s # <<>>

\* the passage cut after every position of `cuts`, each piece stripped, empty
\* pieces dropped
RECURSIVE PiecesFrom(_, _, _)
PiecesFrom(passage, cuts, from) ==
  IF from > Len(passage) THEN <<>>
  ELSE LET later == {c \in cuts : c >= from}
           to == IF later = {} THEN Len(passage)
                 ELSE CHOOSE c \in later : \A e \in later : c <= e
       IN <<Strip(SubSeq(passage, from, to))>> \o PiecesFrom(passage, cuts, to + 1)

\* nltk.sent_tokenize(passage) is an external segmenter: every way of cutting
\* the passage into consecutive sentences is a possible outcome
sent_tokenize(passage) ==
  {SelectSeq(PiecesFrom(passage, cuts, 1), NotEmpty) :
     cuts \in SUBSET (1..(Len(passage) - 1))}

\* every list of sentences the two inner loops of main can visit for a text
RECURSIVE SentenceLists(_)
SentenceLists(passages) ==
  IF passages = <<>> THEN {<<>>}
  ELSE {a \o b : a \in sent_tokenize(Head(passages)),
                 b \in SentenceLists(Tail(passages))}

\* d[key] = val on a dict
DictSet(d, key, val) ==
  IF \E i \in DOMAIN d : d[i].k = key
  THEN [i \in DOMAIN d |-> IF d[i].k = key THEN [k |-> key, v |-> val] ELSE d[i]]
  ELSE Append(d, [k |-> key, v |-> val])

DictGet(d, key) == d[Lookup(d, key)].v

\* tokens = tokenize(sentence); if tokens: sentences[sentence] = tokens
RECURSIVE AddSentences(_, _)
AddSentences(d, list) ==
  IF list = <<>> THEN d
  ELSE LET tokens == tokenize(Head(list))
       IN AddSentences(IF tokens # <<>> THEN DictSet(d, Head(list), tokens) ELSE d,
                       Tail(list))

\* faulty variant: the `if tokens` test is missing
RECURSIVE AddSentencesUnfiltered(_, _)
AddSentencesUnfiltered(d, list) ==
  IF list = <<>> THEN d
  ELSE AddSentencesUnfiltered(DictSet(d, Head(list), tokenize(Head(list))), Tail(list))

\* the loop over filenames; lists[i] is what the segmenter gave for filenames[i]
RECURSIVE ExtractFrom(_, _, _)
ExtractFrom(d, lists, i) ==
  IF i > Len(lists) THEN d
  ELSE ExtractFrom(AddSentences(d, lists[i]), lists, i + 1)

extract_unfiltered(lists) ==
  LET RECURSIVE G(_, _)
      G(d, i) == IF i > Len(lists) THEN d
                 ELSE G(AddSentencesUnfiltered(d, lists[i]), i + 1)
  IN G(<<>>, 1)

extract_sentences(lists) == ExtractFrom(<<>>, lists, 1)

FILE_MATCHES == 1
SENTENCE_MATCHES == 1

(***************************************************************************)
(* SpecMain: one run of main on every explored corpus and query.           *)
(***************************************************************************)
\* "b. B"   "a.\nb"   ". a"   "bb b"   ""   "b.b a"
FileTexts ==
  { <<"b", ".", " ", "B">>,
    <<"a", ".", "\n", "b">>,
    <<".", " ", "a">>,
    <<"b", "b", " ", "b">>,
    <<>>,
    <<"b", ".", "b", " ", "a">> }

\* "b"   "B a"   "bb"   ""   "ab"   "b bb"
Inputs ==
  { <<"b">>, <<"B", " ", "a">>, <<"b", "b">>, <<>>, <<"a", "b">>,
    <<"b", " ", "b", "b">> }

Corpora ==
  UNION {{d \in [1..c -> [k : DocIds, v : FileTexts]] : DistinctKeys(d)} :
           c \in 0..MaxDocs}

InitMain ==
  /\ pc = "load"
  /\ files \in Corpora
  /\ input \in Inputs
  /\ file_words = <<>>
  /\ file_idfs = <<>>
  /\ query = {}
  /\ filenames = <<>>
  /\ sentences = <<>>
  /\ idfs = <<>>
  /\ matches = NoResult
  /\ documents = <<>>
  /\ n = 0
  /\ result = NoResult

\* lines 18-23
IndexFiles ==
  /\ pc = "load"
  /\ LET words == [i \in DOMAIN files |-> [k |-> files[i].k, v |-> tokenize(files[i].v)]]
         out == compute_idfs(words)
     IN /\ file_words' = words
        /\ IF out.kind = "return"
           THEN file_idfs' = out.val /\ pc' = "query" /\ result' = result
           ELSE file_idfs' = file_idfs /\ pc' = "crashed" /\ result' = out
  /\ UNCHANGED <<documents, query, idfs, n, files, input, filenames, sentences, matches>>

\* line 26
ReadQuery ==
  /\ pc = "query"
  /\ query' = Range(tokenize(input))
  /\ pc' = "top_files"
  /\ UNCHANGED <<documents, idfs, n, result, mainVars>>

\* line 29
RankFiles ==
  /\ pc = "top_files"
  /\ LET out == top_files(query, file_words, file_idfs, FILE_MATCHES)
     IN IF out.kind = "return"
        THEN filenames' = out.val /\ pc' = "extract" /\ result' = result
        ELSE filenames' = filenames /\ pc' = "crashed" /\ result' = out
  /\ UNCHANGED <<documents, query, idfs, n, files, input, file_words, file_idfs,
                 sentences, matches>>

\* lines 32-38
ExtractSentences ==
  /\ pc = "extract"
  /\ \E lists \in [DOMAIN filenames ->
                     UNION {SentenceLists(split_lines(files[i].v)) : i \in DOMAIN files}] :
       /\ \A i \in DOMAIN filenames :
            lists[i] \in SentenceLists(split_lines(DictGet(files, filenames[i])))
       /\ sentences' = extract_sentences(lists)
  /\ pc' = "idfs"
  /\ UNCHANGED <<documents, query, idfs, n, result, files, input, file_words,
                 file_idfs, filenames, matches>>

\* line 41
SentenceIdfs ==
  /\ pc = "idfs"
  /\ LET out == compute_idfs(sentences)
     IN IF out.kind = "return"
        THEN idfs' = out.val /\ pc' = "top_sentences" /\ result' = result
        ELSE idfs' = idfs /\ pc' = "crashed" /\ result' = out
  /\ UNCHANGED <<documents, query, n, mainVars>>

\* lines 44-46
RankSentences ==
  /\ pc = "top_sentences"
  /\ matches' = top_sentences(query, sentences, idfs, SENTENCE_MATCHES)
  /\ pc' = IF matches'.kind = "return" THEN "done" ELSE "crashed"
  /\ UNCHANGED <<documents, query, idfs, n, result, files, input, file_words,
                 file_idfs, filenames, sentences>>

NextMain ==
  \/ IndexFiles
  \/ ReadQuery
  \/ RankFiles
  \/ ExtractSentences
  \/ SentenceIdfs
  \/ RankSentences

SpecMain == InitMain /\ [][NextMain]_vars

(***************************************************************************)
(* Claims about compute_idfs, checked under SpecIdfs.                      *)
(***************************************************************************)
\* d(t): the number of documents whose token sequence holds t at least once
DocCount(t) ==
  Cardinality({i \in DOMAIN documents :
                 \E j \in DOMAIN documents[i].v : documents[i].v[j] = t})

Occurring == {t \in Tokens : DocCount(t) >= 1}

\* C1: for a non-empty mapping, compute_idfs returns a table whose keys are
\* exactly the tokens occurring in at least one document, and the value of
\* each token t is ln(N / d(t)) with N the number of documents and d(t) the
\* number of documents containing t, 1 <= d(t) <= N (no division by zero).
C1_IdfTable ==
  (pc = "compute_idfs" /\ Len(documents) > 0) =>
    /\ result.kind = "return"
    /\ DOMAIN result.val = Occurring
    /\ \A t \in Occurring :
         /\ 1 <= DocCount(t)
         /\ DocCount(t) <= Len(documents)
         /\ result.val[t] = <<Len(documents), DocCount(t)>>

\* a token occurs twice in one document and not in the other: d = 1, not 2
C1_Witness ==
  /\ pc = "compute_idfs"
  /\ Len(documents) = 2
  /\ result.kind = "return"
  /\ \E t \in Occurring :
       /\ Count(documents[1].v, t) = 2
       /\ Count(documents[2].v, t) = 0
       /\ result.val[t] = <<2, 1>>

\* C3 as stated: compute_idfs on an empty collection fails with an
\* arithmetic error instead of returning a table.
C3_EmptyRaises ==
  (pc = "compute_idfs" /\ documents = <<>>) =>
    (result.kind = "raise" /\ result.val \in {"ZeroDivisionError", "ValueError"})

\* C3 amended: compute_idfs on an empty collection returns the empty table
\* and raises nothing (the loop over the words has no iteration, so the
\* division by the document count is never evaluated).
C3_EmptyReturnsEmptyTable ==
  (pc = "compute_idfs" /\ documents = <<>>) =>
    (result.kind = "return" /\ DOMAIN result.val = {})

C3_Witness ==
  pc = "compute_idfs" /\ documents = <<>> /\ result.kind = "return"

\* C9: in the table of a non-empty collection a token occurring in every
\* document has idf 0, every idf is non-negative, a token occurring in
\* exactly one document has an idf at least that of every other token, and
\* the idf is antitone in the document count d(t).
C9_IdfMonotone ==
  (pc = "compute_idfs" /\ Len(documents) > 0) =>
    /\ result.kind = "return"
    /\ \A t \in DOMAIN result.val :
         /\ DocCount(t) = Len(documents) => LogEq(result.val[t], LogZero)
         /\ ~LogLess(result.val[t], LogZero)
         /\ DocCount(t) = 1 =>
              \A u \in DOMAIN result.val : ~LogLess(result.val[t], result.val[u])
         /\ \A u \in DOMAIN result.val :
              DocCount(t) <= DocCount(u) => ~LogLess(result.val[t], result.val[u])

\* one token in both documents (idf 0), another in exactly one (idf > 0)
C9_Witness ==
  /\ pc = "compute_idfs"
  /\ Len(documents) = 2
  /\ result.kind = "return"
  /\ \E t, u \in DOMAIN result.val :
       /\ DocCount(t) = 2
       /\ DocCount(u) = 1
       /\ LogEq(result.val[t], LogZero)
       /\ LogLess(result.val[t], result.val[u])

(***************************************************************************)
(* Claims about top_files and top_sentences, checked under Spec.           *)
(***************************************************************************)
KeySet == {documents[i].k : i \in DOMAIN documents}

\* the position at which a key is encountered when iterating the mapping
Position(key) == Lookup(documents, key)

WordsOf(key) == documents[Position(key)].v

Injective(s) == \A i, j \in DOMAIN s : i # j => s[i] # s[j]

AbsentToken == \E w \in query : w \notin DOMAIN idfs

\* C2: a call of top_files with a query token that is not a key of idfs
\* raises nothing: the token contributes 0 and the call returns the ranking
\* it returns for the query without that token.
C2_AbsentTokenIgnored ==
  (pc = "top_files" /\ AbsentToken) =>
    /\ result.kind = "return"
    /\ result = top_files(query \cap DOMAIN idfs, documents, idfs, n)

\* S(f): the sum over the query tokens w of count(w in files[f]) * idf(w)
S(key) == TfIdfTerms(query, WordsOf(key), idfs)

\* C5: when every query token is a key of idfs, top_files returns a list
\* ordered by S(f) descending; two documents with equal score keep the order
\* in which the mapping yields them; no omitted document has a score
\* strictly greater than a returned one.
C5_TopFilesOrder ==
  (pc = "top_files" /\ query \subseteq DOMAIN idfs) =>
    /\ result.kind = "return"
    /\ \A i, j \in DOMAIN result.val :
         i < j =>
           /\ ~LogLess(S(result.val[i]), S(result.val[j]))
           /\ LogEq(S(result.val[i]), S(result.val[j])) =>
                Position(result.val[i]) < Position(result.val[j])
    /\ \A f \in KeySet \ Range(result.val) :
         \A i \in DOMAIN result.val : ~LogLess(S(result.val[i]), S(f))

\* two documents with the same positive score, returned in the order of the
\* mapping, which is not the order of their identifiers
C5_Witness ==
  /\ pc = "top_files"
  /\ query \subseteq DOMAIN idfs
  /\ result.kind = "return"
  /\ Len(result.val) = 2
  /\ result.val[1] > result.val[2]
  /\ LogEq(S(result.val[1]), S(result.val[2]))
  /\ LogLess(LogZero, S(result.val[1]))

\* the pair (idf_sum, density) of a sentence, from the claim's definitions
Matched(key) == {w \in query : \E j \in DOMAIN WordsOf(key) : WordsOf(key)[j] = w}

P(key) ==
  <<IdfTerms(Matched(key), idfs),
    <<Cardinality({j \in DOMAIN WordsOf(key) : WordsOf(key)[j] \in query}),
      Len(WordsOf(key))>>>>

NoEmptySentence == \A i \in DOMAIN documents : documents[i].v # <<>>

TopFilesRaises == documents # <<>> /\ AbsentToken

TopSentencesRaises ==
  \E i \in DOMAIN documents :
    \/ documents[i].v = <<>>
    \/ \E w \in query : w \in Range(documents[i].v) /\ w \notin DOMAIN idfs

C7_EmptySentenceDivisionError ==
  (pc = "top_sentences" /\ ~NoEmptySentence) =>
    result = Raised("ZeroDivisionError")

\* C7, the part that holds of the code: with an empty token sequence in the
\* mapping the call never returns a list, and it ends in the division by
\* zero unless the lookup of a query token fails at an earlier sentence.
C7_EmptySentenceNeverReturns ==
  (pc = "top_sentences" /\ ~NoEmptySentence) =>
    /\ result.kind = "raise"
    /\ LET e == CHOOSE i \in DOMAIN documents :
                  /\ documents[i].v = <<>>
                  /\ \A j \in 1..(i - 1) : documents[j].v # <<>>
       IN (\A j \in 1..(e - 1) : \A w \in query :
             w \in Range(documents[j].v) => w \in DOMAIN idfs)
          <=> result = Raised("ZeroDivisionError")

\* C8: a call of top_sentences with a query token that is not a key of idfs
\* raises no lookup error, whether or not the token occurs in a sentence.
C8_AbsentTokenIgnored ==
  (pc = "top_sentences" /\ AbsentToken /\ NoEmptySentence) =>
    result.kind = "return"

\* C8, the part that holds of the code: a query token that is missing from
\* idfs is ignored when it occurs in no sentence, and ends the call in a
\* KeyError when it occurs in one.
C8_AbsentTokenLookup ==
  (pc = "top_sentences" /\ AbsentToken /\ NoEmptySentence) =>
    IF \E i \in DOMAIN documents :
         \E w \in query : w \in Range(documents[i].v) /\ w \notin DOMAIN idfs
    THEN result = Raised("KeyError")
    ELSE /\ result.kind = "return"
         /\ result = top_sentences(query \cap DOMAIN idfs, documents, idfs, n)

(***************************************************************************)
(* Claims about main, checked under SpecMain.                              *)
(***************************************************************************)
\* s is a run of consecutive characters of text
IsSubstring(s, text) ==
  \E from \in 1..(Len(text) + 1) :
    /\ from + Len(s) - 1 <= Len(text)
    /\ SubSeq(text, from, from + Len(s) - 1) = s

SentenceWords == UNION {Range(sentences[i].v) : i \in DOMAIN sentences}

SentenceCount(w) ==
  Cardinality({i \in DOMAIN sentences : w \in Range(sentences[i].v)})

\* C10: in every run of main the sentence mapping handed to compute_idfs and
\* top_sentences holds only sentences with a non-empty token sequence that
\* come from a file returned by top_files, the IDF table handed to
\* top_sentences is the one computed from that sentence mapping, and so
\* top_sentences neither divides by zero nor misses a token in its table.
C10_SentencePass ==
  /\ pc \in {"idfs", "top_sentences", "done"} =>
       \A i \in DOMAIN sentences :
         /\ sentences[i].v # <<>>
         /\ sentences[i].v = tokenize(sentences[i].k)
         /\ \E j \in DOMAIN filenames :
              IsSubstring(sentences[i].k, DictGet(files, filenames[j]))
  /\ pc \in {"top_sentences", "done"} =>
       /\ DOMAIN idfs = SentenceWords
       /\ \A w \in SentenceWords : idfs[w] = <<Len(sentences), SentenceCount(w)>>
       /\ \A i \in DOMAIN sentences :
            \A w \in query : w \in Range(sentences[i].v) => w \in DOMAIN idfs
  /\ matches.kind # "raise"
  /\ pc = "done" => matches.kind = "return"

\* the selected file "a.\nb" has a passage that tokenizes to nothing; it is
\* left out, and the sentence "b" is the match
C10_Witness ==
  /\ pc = "done"
  /\ Len(filenames) = 1
  /\ DictGet(files, filenames[1]) = <<"a", ".", "\n", "b">>
  /\ Keys(sentences) = << <<"b">> >>
  /\ matches = Returned(<< <<"b">> >>)

====
